---- MODULE Spec2Model ----
(***************************************************************************)
(* RecursiveChunker (src/src/chonkie/chunkers/recursive_chunker.py).      *)
(*                                                                         *)
(* A text is a sequence of one-character strings.  The chunker's state is  *)
(* its configuration (recursive_rules, chunk_size,                         *)
(* min_characters_per_chunk, return_type), the call stack of              *)
(* _chunk_helper, and the locals of the running _merge_splits call.        *)
(* Python indices are 0-based; sequences here are 1-based, so a Python     *)
(* list element a[i] is a[i + 1] below.                                    *)
(***************************************************************************)
EXTENDS Integers, Sequences, FiniteSets, TLC

VARIABLES
    input,                      \* the text given to chunk()
    recursive_rules,            \* self.recursive_rules (also read as self.rules)
    chunk_size,                 \* self.chunk_size
    min_characters_per_chunk,   \* self.min_characters_per_chunk
    return_type,                \* self.return_type
    pc,                         \* position of the running call
    stack,                      \* frames of _chunk_helper, innermost last
    result,                     \* what chunk() returned
    splits,                     \* _merge_splits: argument splits
    token_counts,               \* _merge_splits: argument token_counts
    combine_whitespace,         \* _merge_splits: argument combine_whitespace
    cumulative_token_counts,    \* _merge_splits: local
    current_index,              \* _merge_splits: local
    merged,                     \* _merge_splits: local, then first return value
    combined_token_counts,      \* _merge_splits: local, then second return value
    iters                       \* iterations of the while loop run so far

vars == << input, recursive_rules, chunk_size, min_characters_per_chunk,
           return_type, pc, stack, result, splits, token_counts,
           combine_whitespace, cumulative_token_counts, current_index,
           merged, combined_token_counts, iters >>

config_vars == << input, recursive_rules, chunk_size,
                  min_characters_per_chunk, return_type >>

merge_vars == << splits, token_counts, combine_whitespace,
                 cumulative_token_counts, current_index, merged,
                 combined_token_counts, iters >>

----------------------------------------------------------------------------
(* Bounds of the explored inputs. *)

\* Number of parts (words, spaces, delimiters) an input text is built from.
MaxParts == 3

\* Longest splits / token_counts lists handed to the Merger on its own.
MaxPieces == 3

\* Largest finite token count of a piece handed to the Merger on its own.
MaxCount == 3

\* Iterations the while loop may run beyond len(splits) before the model
\* stops following it (a loop that has run len(splits) + 1 iterations has
\* visited some index twice and, being deterministic, never ends).
MaxExtraIters == 1

----------------------------------------------------------------------------
(* Numbers: Python ints and the float values the estimator introduces. *)

_CHARS_PER_TOKEN == 6

\* float("inf"); every int of the model is far below it.
Inf == 1000000

\* -inf, the value of (finite - inf).
NegInf == -1000000

\* nan, the value of (inf - inf); every comparison with it is false.
NaN == -2000000

Add(x, y) == IF x = Inf \/ y = Inf THEN Inf ELSE x + y

Sub(x, y) ==
    IF x = Inf /\ y = Inf THEN NaN
    ELSE IF x = Inf THEN Inf
    ELSE IF y = Inf THEN NegInf
    ELSE x - y

Lt(x, y) == x # NaN /\ y # NaN /\ x < y

Gt(x, y) == x # NaN /\ y # NaN /\ x > y

Max(x, y) == IF x >= y THEN x ELSE y

Min(x, y) == IF x <= y THEN x ELSE y

----------------------------------------------------------------------------
(* Strings. *)

\* Python s[i:j] for 0 <= i, 0 <= j (empty when j <= i).
Slice(s, i, j) == SubSeq(s, i + 1, Min(j, Len(s)))

RECURSIVE Join(_, _)
\* sep.join(parts)
Join(parts, sep) ==
    IF parts = << >> THEN << >>
    ELSE IF Len(parts) = 1 THEN parts[1]
    ELSE parts[1] \o sep \o Join(Tail(parts), sep)

\* str.index(sub) on full[from:], plus from; -1 when it raises ValueError.
Index(full, sub, from) ==
    LET hits == { i \in from .. (Len(full) - Len(sub)) :
                     Slice(full, i, i + Len(sub)) = sub }
    IN IF hits = {} THEN -1
       ELSE CHOOSE i \in hits : \A j \in hits : i <= j

RECURSIVE StrSplit(_, _)
\* text.split(sep) for a non-empty separator sep.
StrSplit(s, sep) ==
    LET i == Index(s, sep, 0)
    IN IF i = -1 THEN << s >>
       ELSE << Slice(s, 0, i) >> \o StrSplit(Slice(s, i + Len(sep), Len(s)), sep)

RECURSIVE StrReplace(_, _, _)
\* text.replace(old, new) for a non-empty old.
StrReplace(s, old, new) ==
    LET i == Index(s, old, 0)
    IN IF i = -1 THEN s
       ELSE Slice(s, 0, i) \o new
            \o StrReplace(Slice(s, i + Len(old), Len(s)), old, new)

----------------------------------------------------------------------------
(* The tokenizer the chunker is constructed with: a word tokenizer.  Each *)
(* maximal run of letters is one token, every other character is a token  *)
(* of its own; a token id is represented by the token's text.             *)

Letters == {"a", "x"}

RECURSIVE LetterRun(_)
LetterRun(s) ==
    IF s = << >> \/ Head(s) \notin Letters THEN 0 ELSE 1 + LetterRun(Tail(s))

RECURSIVE encode(_)
encode(s) ==
    IF s = << >> THEN << >>
    ELSE LET n == Max(1, LetterRun(s))
         IN << Slice(s, 0, n) >> \o encode(Slice(s, n, Len(s)))

count_tokens(s) == Len(encode(s))

decode_batch(token_splits) ==
    [ w \in 1 .. Len(token_splits) |-> Join(token_splits[w], << >>) ]

----------------------------------------------------------------------------
(* Rule levels. *)

\* delimiters = << >> stands for None.
Level(delimiters, whitespace, include_delim) ==
    [ delimiters |-> delimiters, whitespace |-> whitespace,
      include_delim |-> include_delim ]

WhitespaceLevel == Level(<< >>, TRUE, "prev")

TokenLevel == Level(<< >>, FALSE, "prev")

DelimLevel(include_delim) == Level(<< <<".">> >>, FALSE, include_delim)

\* The internal separator "<=CHONKIE_INTERNAL_SEP=>": one symbol that no
\* text and no delimiter contains.
sep == << "<=CHONKIE_INTERNAL_SEP=>" >>

----------------------------------------------------------------------------
(* _estimate_token_count *)

_estimate_token_count(text) ==
    LET estimate == Max(1, Len(text) \div _CHARS_PER_TOKEN)
    IN IF estimate > chunk_size THEN Inf ELSE count_tokens(text)

\* self._get_token_count(text): the exact count.
_get_token_count(text) == count_tokens(text)

----------------------------------------------------------------------------
(* _split *)

RECURSIVE ReplaceDelimiters(_, _, _)
\* for delimiter in recursive_level.delimiters: text = text.replace(...)
ReplaceDelimiters(text, delimiters, include_delim) ==
    IF delimiters = << >> THEN text
    ELSE LET delimiter == Head(delimiters)
             new == IF include_delim = "prev" THEN delimiter \o sep
                    ELSE IF include_delim = "next" THEN sep \o delimiter
                    ELSE sep
         IN ReplaceDelimiters(StrReplace(text, delimiter, new),
                              Tail(delimiters), include_delim)

\* [split for split in text.split(sep) if split != ""]
NonEmptySplits(text) == SelectSeq(StrSplit(text, sep), LAMBDA s : s # << >>)

RECURSIVE MergeShortSplitsDropTail(_, _, _)
\* MergeShortSplits without the final "if current: merged.append(current)".
MergeShortSplitsDropTail(raw, current, out) ==
    IF raw = << >> THEN out
    ELSE LET split == Head(raw)
             a == IF Len(split) < min_characters_per_chunk
                  THEN [ current |-> current \o split, out |-> out ]
                  ELSE IF current # << >>
                  THEN [ current |-> << >>, out |-> Append(out, current \o split) ]
                  ELSE [ current |-> current, out |-> Append(out, split) ]
             b == IF Len(a.current) >= min_characters_per_chunk
                  THEN [ current |-> << >>, out |-> Append(a.out, a.current) ]
                  ELSE a
         IN MergeShortSplitsDropTail(Tail(raw), b.current, b.out)

RECURSIVE MergeShortSplits(_, _, _)
\* The "Merge short splits" loop of _split: raw is what is left of splits,
\* current and out are the loop's current and merged.
MergeShortSplits(raw, current, out) ==
    IF raw = << >>
    THEN IF current # << >> THEN Append(out, current) ELSE out
    ELSE LET split == Head(raw)
             a == IF Len(split) < min_characters_per_chunk
                  THEN [ current |-> current \o split, out |-> out ]
                  ELSE IF current # << >>
                  THEN [ current |-> << >>, out |-> Append(out, current \o split) ]
                  ELSE [ current |-> current, out |-> Append(out, split) ]
             b == IF Len(a.current) >= min_characters_per_chunk
                  THEN [ current |-> << >>, out |-> Append(a.out, a.current) ]
                  ELSE a
         IN MergeShortSplits(Tail(raw), b.current, b.out)

\* TokenWindows without the last, shorter window.
TokenWindowsFullOnly(encoded) ==
    [ w \in 1 .. (Len(encoded) \div chunk_size) |->
        Slice(encoded, (w - 1) * chunk_size, w * chunk_size) ]

\* [encoded[i : i + chunk_size] for i in range(0, len(encoded), chunk_size)]
TokenWindows(encoded) ==
    [ w \in 1 .. ((Len(encoded) + chunk_size - 1) \div chunk_size) |->
        Slice(encoded, (w - 1) * chunk_size, (w - 1) * chunk_size + chunk_size) ]

_split(text, recursive_level) ==
    IF recursive_level.whitespace
    THEN StrSplit(text, << " " >>)
    ELSE IF recursive_level.delimiters # << >>
    THEN MergeShortSplits(
             NonEmptySplits(ReplaceDelimiters(text, recursive_level.delimiters,
                                              recursive_level.include_delim)),
             << >>, << >>)
    ELSE decode_batch(TokenWindows(encode(text)))

----------------------------------------------------------------------------
(* _convert_to_chunk *)

_convert_to_chunk(text, token_count, level, full_text, last_chunk_end_index) ==
    LET start_index == Index(full_text, text, last_chunk_end_index)
    IN IF start_index = -1
       THEN [ text |-> text, start_index |-> 0, end_index |-> 0,
              token_count |-> token_count, level |-> level ]
       ELSE [ text |-> text, start_index |-> start_index,
              end_index |-> start_index + Len(text),
              token_count |-> token_count, level |-> level ]

----------------------------------------------------------------------------
(* _merge_splits *)

RECURSIVE accumulate(_, _, _)
\* list(accumulate([0] + token_counts, f)) with f = x + y, or x + y + 1 when
\* combine_whitespace: acc is the last value produced.
accumulate(counts, acc, plus_one) ==
    IF counts = << >> THEN << acc >>
    ELSE << acc >> \o accumulate(Tail(counts),
                                 Add(Add(acc, Head(counts)), IF plus_one THEN 1 ELSE 0),
                                 plus_one)

RECURSIVE bisect_left(_, _, _, _)
\* bisect.bisect_left(a, x, lo, hi): the binary search of the library.
bisect_left(a, x, lo, hi) ==
    IF lo < hi
    THEN LET mid == (lo + hi) \div 2
         IN IF Lt(a[mid + 1], x)
            THEN bisect_left(a, x, mid + 1, hi)
            ELSE bisect_left(a, x, lo, mid)
    ELSE lo

\* The index the loop merges up to, from current_index.
MergeIndex ==
    LET required_token_count ==
            Add(cumulative_token_counts[current_index + 1], chunk_size)
        index == Min(bisect_left(cumulative_token_counts, required_token_count,
                                 current_index, Len(cumulative_token_counts)) - 1,
                     Len(splits))
    IN IF index = current_index THEN index + 1 ELSE index

----------------------------------------------------------------------------
(* _chunk_helper *)

\* The test "token_count > self.chunk_size + 1".
OversizedOffByOne(token_count) == Gt(token_count, chunk_size + 1)

\* The test "token_count > self.chunk_size" of the driver's loop.
Oversized(token_count) == Gt(token_count, chunk_size)

Frame(text, level, full_text) ==
    [ text |-> text, level |-> level, full_text |-> full_text,
      merged |-> << >>, combined_token_counts |-> << >>,
      k |-> 0, chunks |-> << >> ]

Top == stack[Len(stack)]

\* len(self.rules): self.rules and self.recursive_rules are read as the same
\* rule set, and a level's whitespace_delimiter / custom_delimiters as its
\* whitespace / "delimiters is not None".
NumRules == Len(recursive_rules)

----------------------------------------------------------------------------
(* Inputs. *)

\* The shortest word whose estimate exceeds chunk_size 1.
LongWord == [ i \in 1 .. (2 * _CHARS_PER_TOKEN) |-> "x" ]

Parts == { << "a" >>, << " " >>, << "." >>, LongWord }

Texts ==
    UNION { { Join(ps, << >>) : ps \in [ 1 .. n -> Parts ] } : n \in 0 .. MaxParts }

ChunkSizes == { 1, 2, 3 }

MinCharacters == { 1, 2 }

ReturnTypes == { "chunks", "texts" }

RuleSets ==
    { << WhitespaceLevel >>,
      << TokenLevel >>,
      << DelimLevel("prev") >>,
      << DelimLevel("next") >>,
      << DelimLevel("none") >>,
      << Level(<< << "." >>, << " " >> >>, FALSE, "prev") >>,
      << WhitespaceLevel, TokenLevel >>,
      << WhitespaceLevel, DelimLevel("prev") >>,
      << DelimLevel("prev"), WhitespaceLevel >>,
      << DelimLevel("next"), TokenLevel >>,
      << DelimLevel("none"), TokenLevel >>,
      << DelimLevel("prev"), WhitespaceLevel, TokenLevel >> }

Pieces == { << "a" >>, << "a", "a" >> }

Counts == (0 .. MaxCount) \cup { Inf }

SeqsUpTo(S, n) == UNION { [ 1 .. m -> S ] : m \in 0 .. n }

----------------------------------------------------------------------------
(* chunk(text): the state after construction and the call of              *)
(* _chunk_helper(text=text, level=0, full_text=text).                     *)

Init ==
    /\ input \in Texts
    /\ recursive_rules \in RuleSets
    /\ chunk_size \in ChunkSizes
    /\ min_characters_per_chunk \in MinCharacters
    /\ return_type \in ReturnTypes
    /\ pc = "call"
    /\ stack = << Frame(input, 0, input) >>
    /\ result = << >>
    /\ splits = << >>
    /\ token_counts = << >>
    /\ combine_whitespace = FALSE
    /\ cumulative_token_counts = << >>
    /\ current_index = 0
    /\ merged = << >>
    /\ combined_token_counts = << >>
    /\ iters = 0

\* _merge_splits(splits, token_counts, combine_whitespace) called on its own.
MergeInit ==
    /\ input = << >>
    /\ recursive_rules = << >>
    /\ chunk_size \in ChunkSizes
    /\ min_characters_per_chunk = 1
    /\ return_type = "chunks"
    /\ pc = "merge_call"
    /\ stack = << >>
    /\ result = << >>
    /\ splits \in SeqsUpTo(Pieces, MaxPieces)
    /\ token_counts \in SeqsUpTo(Counts, MaxPieces)
    /\ combine_whitespace \in BOOLEAN
    /\ cumulative_token_counts = << >>
    /\ current_index = 0
    /\ merged = << >>
    /\ combined_token_counts = << >>
    /\ iters = 0

\* "return chunks" of the innermost _chunk_helper call: the caller extends
\* its own chunks and goes on with its loop; the outermost call returns to
\* chunk().
Return(chunks) ==
    IF Len(stack) = 1
    THEN /\ result' = chunks
         /\ stack' = << >>
         /\ pc' = "done"
    ELSE LET n == Len(stack) - 1
         IN /\ stack' = [ SubSeq(stack, 1, n) EXCEPT
                            ![n].chunks = @ \o chunks,
                            ![n].k = @ + 1 ]
            /\ pc' = "emit"
            /\ UNCHANGED result

\* "if not text: return []"
ReturnEmpty ==
    /\ pc = "call"
    /\ Top.text = << >>
    /\ Return(<< >>)
    /\ UNCHANGED << config_vars, merge_vars >>

\* "if level >= len(self.rules)": the whole text as one chunk.
RulesExhausted ==
    /\ pc = "call"
    /\ Top.text # << >>
    /\ Top.level >= NumRules
    /\ Return(IF return_type = "texts"
              THEN << Top.text >>
              ELSE << _convert_to_chunk(Top.text, _get_token_count(Top.text),
                                        Top.level, Top.full_text, 0) >>)
    /\ UNCHANGED << config_vars, merge_vars >>

\* Split the text by the level's rule and estimate the pieces; token-window
\* pieces are final, the others go to _merge_splits.
SplitLevel ==
    /\ pc = "call"
    /\ Top.text # << >>
    /\ Top.level < NumRules
    /\ LET curr_rule == recursive_rules[Top.level + 1]
           the_splits == _split(Top.text, curr_rule)
           the_counts == [ i \in 1 .. Len(the_splits) |->
                             _estimate_token_count(the_splits[i]) ]
       IN IF curr_rule.delimiters = << >> /\ ~curr_rule.whitespace
          THEN /\ stack' = [ stack EXCEPT
                               ![Len(stack)].merged = the_splits,
                               ![Len(stack)].combined_token_counts = the_counts ]
               /\ pc' = "emit"
               /\ UNCHANGED merge_vars
          ELSE /\ splits' = the_splits
               /\ token_counts' = the_counts
               /\ combine_whitespace' =
                      (curr_rule.delimiters = << >> /\ curr_rule.whitespace)
               /\ pc' = "merge_call"
               /\ UNCHANGED << stack, cumulative_token_counts, current_index,
                               merged, combined_token_counts, iters >>
    /\ UNCHANGED << config_vars, result >>

\* _merge_splits returns (out, out_counts): to _chunk_helper when it made
\* the call, else to the outside caller.
MergeReturns(out, out_counts) ==
    /\ merged' = out
    /\ combined_token_counts' = out_counts
    /\ IF stack = << >>
       THEN /\ pc' = "merge_done"
            /\ UNCHANGED stack
       ELSE /\ pc' = "emit"
            /\ stack' = [ stack EXCEPT
                            ![Len(stack)].merged = out,
                            ![Len(stack)].combined_token_counts = out_counts ]

\* The start of _merge_splits, up to the while loop.
MergeCall ==
    /\ pc = "merge_call"
    /\ IF splits = << >> \/ token_counts = << >>
       THEN /\ MergeReturns(<< >>, << >>)
            /\ UNCHANGED << cumulative_token_counts, current_index, iters >>
       ELSE IF Len(splits) # Len(token_counts)
       THEN /\ pc' = "error"
            /\ UNCHANGED << stack, cumulative_token_counts, current_index,
                            merged, combined_token_counts, iters >>
       ELSE IF \A i \in 1 .. Len(token_counts) : Gt(token_counts[i], chunk_size)
       THEN /\ MergeReturns(splits, token_counts)
            /\ UNCHANGED << cumulative_token_counts, current_index, iters >>
       ELSE /\ cumulative_token_counts' =
                   accumulate(token_counts, 0, combine_whitespace)
            /\ current_index' = 0
            /\ merged' = << >>
            /\ combined_token_counts' = << >>
            /\ iters' = 0
            /\ pc' = "merge_loop"
            /\ UNCHANGED stack
    /\ UNCHANGED << config_vars, result, splits, token_counts, combine_whitespace >>

\* One iteration of "while current_index < len(splits)".
MergeStep ==
    /\ pc = "merge_loop"
    /\ current_index < Len(splits)
    /\ iters < Len(splits) + MaxExtraIters
    /\ LET index == MergeIndex
       IN /\ merged' = Append(merged,
                 Join(Slice(splits, current_index, index),
                      IF combine_whitespace THEN << " " >> ELSE << >>))
          /\ combined_token_counts' = Append(combined_token_counts,
                 Sub(cumulative_token_counts[Min(index, Len(splits)) + 1],
                     cumulative_token_counts[current_index + 1]))
          /\ current_index' = index
    /\ iters' = iters + 1
    /\ UNCHANGED << config_vars, pc, stack, result, splits, token_counts,
                    combine_whitespace, cumulative_token_counts >>

\* The loop's exit: "return merged, combined_token_counts".
MergeExit ==
    /\ pc = "merge_loop"
    /\ current_index >= Len(splits)
    /\ MergeReturns(merged, combined_token_counts)
    /\ UNCHANGED << config_vars, result, splits, token_counts, combine_whitespace,
                    cumulative_token_counts, current_index, iters >>

\* zip(merged, combined_token_counts) of the innermost call.
Items == Min(Len(Top.merged), Len(Top.combined_token_counts))

\* The loop's next span is too long: recurse into it at the next level.
Recurse ==
    /\ pc = "emit"
    /\ Top.k < Items
    /\ Oversized(Top.combined_token_counts[Top.k + 1])
    /\ stack' = Append(stack, Frame(Top.merged[Top.k + 1], Top.level + 1,
                                    Top.full_text))
    /\ pc' = "call"
    /\ UNCHANGED << config_vars, merge_vars, result >>

\* The loop's next span fits: it becomes a chunk (or a text).
Materialize ==
    /\ pc = "emit"
    /\ Top.k < Items
    /\ ~Oversized(Top.combined_token_counts[Top.k + 1])
    /\ LET split == Top.merged[Top.k + 1]
           token_count == Top.combined_token_counts[Top.k + 1]
           curr_rule == recursive_rules[Top.level + 1]
           no_delim == curr_rule.delimiters = << >> /\ ~curr_rule.whitespace
           item == IF return_type = "chunks"
                   THEN _convert_to_chunk(split, token_count, Top.level,
                            IF no_delim THEN Join(Top.merged, << >>)
                                        ELSE Top.full_text,
                            0)
                   ELSE split
       IN stack' = [ stack EXCEPT
                       ![Len(stack)].chunks = Append(@, item),
                       ![Len(stack)].k = @ + 1 ]
    /\ UNCHANGED << config_vars, merge_vars, pc, result >>

\* The loop is over: "return chunks".
LoopEnd ==
    /\ pc = "emit"
    /\ Top.k >= Items
    /\ Return(Top.chunks)
    /\ UNCHANGED << config_vars, merge_vars >>

Next ==
    \/ ReturnEmpty
    \/ RulesExhausted
    \/ SplitLevel
    \/ MergeCall
    \/ MergeStep
    \/ MergeExit
    \/ Recurse
    \/ Materialize
    \/ LoopEnd

Spec == Init /\ [][Next]_vars

MergeNext ==
    \/ MergeCall
    \/ MergeStep
    \/ MergeExit

MergeSpec == MergeInit /\ [][MergeNext]_vars

----------------------------------------------------------------------------
(* Vocabulary of the properties. *)

\* The text of a returned item: a chunk's text, or the text itself.
TextOf(item) == IF return_type = "chunks" THEN item.text ELSE item

\* The texts of the returned items, concatenated in order.
Concatenation == Join([ i \in 1 .. Len(result) |-> TextOf(result[i]) ], << >>)

NonSpace(text) == SelectSeq(text, LAMBDA c : c # " ")

\* A chunk whose offsets are not the (0, 0) of a failed search (a search
\* that succeeds for a non-empty text gives end_index > start_index).
Resolved(c) == ~(c.start_index = 0 /\ c.end_index = 0 /\ c.text # << >>)

IsTokenWindow(rule) == rule.delimiters = << >> /\ ~rule.whitespace

IsKeptDelimiter(rule) ==
    rule.delimiters # << >> /\ rule.include_delim \in { "prev", "next" }

AllFinite(counts) == \A i \in 1 .. Len(counts) : counts[i] # Inf

RECURSIVE SumSeq(_)
SumSeq(counts) == IF counts = << >> THEN 0 ELSE Head(counts) + SumSeq(Tail(counts))

----------------------------------------------------------------------------
(* C1: with a rule set whose final level is token-window mode, chunk(text) *)
(* terminates and no _chunk_helper call has a level above len(rules).      *)
(* Termination is stated by its bound: the Merger's loop is deterministic  *)
(* in current_index, so it ends exactly when it runs at most len(splits)   *)
(* iterations; one more iteration repeats an index and the loop runs for   *)
(* ever.                                                                   *)
C1_TerminatesWithinDepth ==
    (NumRules > 0 /\ IsTokenWindow(recursive_rules[NumRules]))
    => /\ \A i \in 1 .. Len(stack) : stack[i].level <= NumRules
       /\ pc = "merge_loop" => iters <= Len(splits)

(* C2: in 'chunks' mode every chunk materialized at a level below          *)
(* len(rules) has a token_count of at most chunk_size.                     *)
C2_SizeBound ==
    return_type = "chunks"
    => /\ \A i \in 1 .. Len(result) :
            result[i].level < NumRules
            => result[i].token_count \in 0 .. chunk_size
       /\ \A f \in 1 .. Len(stack) : \A i \in 1 .. Len(stack[f].chunks) :
            stack[f].chunks[i].level < NumRules
            => stack[f].chunks[i].token_count \in 0 .. chunk_size

\* chunk() returned a chunk of exactly chunk_size tokens made below
\* len(rules), and a larger one made by the rules-exhausted fallback.
C2_Witness ==
    /\ pc = "done"
    /\ return_type = "chunks"
    /\ \E i \in 1 .. Len(result) :
         result[i].level < NumRules /\ result[i].token_count = chunk_size
    /\ \E i \in 1 .. Len(result) :
         result[i].level >= NumRules /\ result[i].token_count > chunk_size

(* C3: every returned chunk whose offsets were resolved satisfies          *)
(* T[start_index : end_index] = text and end_index - start_index =         *)
(* len(text), T being the text given to chunk().                           *)
C3_OffsetsIntoOriginal ==
    (pc = "done" /\ return_type = "chunks")
    => \A i \in 1 .. Len(result) :
         Resolved(result[i])
         => /\ Slice(input, result[i].start_index, result[i].end_index)
                 = result[i].text
            /\ result[i].end_index - result[i].start_index = Len(result[i].text)

(* C4: consecutive returned chunks with resolved offsets are ordered and   *)
(* do not overlap: next.start_index >= prev.end_index.  Stated for rule    *)
(* sets without a token-window level, where every search is made in the    *)
(* original text.                                                          *)
C4_OrderedNonOverlapping ==
    (/\ pc = "done"
     /\ return_type = "chunks"
     /\ \A l \in 1 .. NumRules : ~IsTokenWindow(recursive_rules[l]))
    => \A i \in 1 .. Len(result) - 1 :
         (Resolved(result[i]) /\ Resolved(result[i + 1]))
         => result[i + 1].start_index >= result[i].end_index

C6_MismatchIsError ==
    (Len(splits) # Len(token_counts) /\ pc # "merge_call") => pc = "error"

(* C7: with the token-window rule alone, chunk(text) of a non-empty text   *)
(* of n tokens returns ceil(n / chunk_size) items, the w-th being the      *)
(* decoded w-th window of chunk_size token ids.                            *)
C7_TokenWindowCount ==
    (pc = "done" /\ recursive_rules = << TokenLevel >> /\ input # << >>)
    => LET n == Len(encode(input))
       IN /\ Len(result) * chunk_size >= n
          /\ (Len(result) - 1) * chunk_size < n
          /\ \A w \in 1 .. Len(result) :
               TextOf(result[w]) =
                   Join(Slice(encode(input), (w - 1) * chunk_size,
                              w * chunk_size), << >>)

\* Several windows, one returned by the rules-exhausted fallback (its
\* estimate overflowed) and one materialized directly.
C7_Witness ==
    /\ pc = "done"
    /\ recursive_rules = << TokenLevel >>
    /\ return_type = "chunks"
    /\ Len(result) >= 2
    /\ \E i \in 1 .. Len(result) : result[i].level = 1
    /\ \E i \in 1 .. Len(result) : result[i].level = 0

(* C8: for counts that are non-negative ints or the overflow value, every  *)
(* iteration of the Merger's loop strictly increases current_index, merges *)
(* the non-empty slice pieces[current:index], and the loop runs at most    *)
(* len(pieces) iterations.                                                 *)
C8_MergerProgress ==
    [][ MergeStep
        => /\ current_index' > current_index
           /\ merged'[Len(merged')] =
                  Join(Slice(splits, current_index, current_index'),
                       IF combine_whitespace THEN << " " >> ELSE << >>)
           /\ iters' <= Len(splits) ]_vars

(* C9: each Merger step merges up to the farthest index whose cumulative   *)
(* sum does not exceed cumulative[current] + chunk_size (one piece when    *)
(* there is none).  Stated for finite counts.                              *)
C9_GreedyMaximal ==
    [][ (MergeStep /\ AllFinite(token_counts))
        => LET fits == { j \in (current_index + 1) .. Len(splits) :
                           cumulative_token_counts[j + 1]
                             <= cumulative_token_counts[current_index + 1]
                                  + chunk_size }
           IN IF fits = {} THEN current_index' = current_index + 1
              ELSE current_index' \in fits
                   /\ \A j \in fits : j <= current_index' ]_vars

(* C10: with combine_whitespace, the count recorded for a merged group of  *)
(* k pieces is the sum of their counts plus k - 1.  Stated for finite      *)
(* counts.                                                                 *)
C10_OnePerJoin ==
    [][ (MergeStep /\ combine_whitespace /\ AllFinite(token_counts))
        => combined_token_counts'[Len(combined_token_counts')]
             = SumSeq(Slice(token_counts, current_index, current_index'))
               + (current_index' - current_index - 1) ]_vars

====
